---- MODULE Spec2Model ----
(***************************************************************************)
(* Model of src/src/visualization_app.py, the Streamlit churn dashboard.   *)
(*                                                                         *)
(* The script is re-executed from its first line on every interaction.     *)
(* One execution is modelled as the steps LoadData (line 32), EmptyGuard   *)
(* (lines 35-36), OverviewMetrics (55-70), ChurnByCountry (93-94) and      *)
(* AtRiskCustomers (112-131); SliderChange and Rerun are the interactions  *)
(* that start the next execution.                                          *)
(*                                                                         *)
(* Numbers.  Probabilities and the slider value are counted in slider      *)
(* steps of 0.01, so 1.0 is 100.  A mean is kept as an exact fraction      *)
(* [num, den]; fractions are compared by cross multiplication.             *)
(*                                                                         *)
(* A DataFrame is a sequence of rows; each row carries the index label     *)
(* read_csv gave it (field index), as pandas rows do through filtering     *)
(* and sorting.  Only the columns the script computes with are modelled;   *)
(* Recency, Frequency, Monetary and Tenure are only passed to the table.   *)
(***************************************************************************)
EXTENDS Integers, Sequences, FiniteSets, TLC

\* ---------------------------------------------------------------- bounds
\* Longest dataset whose rows differ in churn_probability.
MaxRows == 3
\* Longest dataset whose rows differ in customer, outcome and country.
MaxGroupRows == 2
\* Length of the long datasets that exercise the 500-row display cut.
LargeRows == 600

\* ------------------------------------------------------ program constants
\* st.slider(min_value=0.0, max_value=1.0, value=0.5, step=0.01), in steps.
min_value == 0
max_value == 100
value == 50
\* .head(500)
DisplayLimit == 500

\* ------------------------------------------------------------ input data
\* Group keys in the ascending order groupby(sort=True) yields them.
Countries == <<"France", "UK">>
Probabilities == {0, 50, 100}
\* The customers of the files, each with the one country group it buys in.
CustomerIDs == {1, 2, 3}
CountryOf(c) == IF c = 3 THEN "France" ELSE "UK"

Range(s) == {s[i] : i \in DOMAIN s}

\* One line of customer_churn_predictions.csv.  predicted_churn is the
\* classifier's decision at probability 0.5.
CsvRow(c, ch, p) ==
  [CustomerID |-> c, is_churned |-> ch,
   predicted_churn |-> IF p >= 50 THEN 1 ELSE 0,
   churn_probability |-> p, Country |-> CountryOf(c)]

\* Lines that differ in the column the at-risk query reads.
ProbabilityRows == { CsvRow(1, 0, p) : p \in Probabilities }

\* Lines that differ in the columns the overview and the country table read.
GroupRows == { CsvRow(c, ch, 50) : c \in CustomerIDs, ch \in {0, 1} }

SeqsUpTo(S, n) == UNION { [1..k -> S] : k \in 0..n }

Csv(rows) == [kind |-> "csv", rows |-> rows]

\* Scenario B of the specification: UK 5 rows / 2 churned, France 3 rows /
\* 3 churned.
ScenarioB ==
  Csv(<<CsvRow(1, 1, 50), CsvRow(2, 1, 50), CsvRow(1, 0, 50), CsvRow(2, 0, 50),
        CsvRow(1, 0, 50), CsvRow(3, 1, 50), CsvRow(3, 1, 50), CsvRow(3, 1, 50)>>)

\* The file on disk is absent, present but not loadable, or a csv with any
\* number of data lines (0 lines: a header only).
FaultSources ==
  { [kind |-> "missing", rows |-> <<>>], [kind |-> "unreadable", rows |-> <<>>] }
ProbabilitySources ==
  FaultSources \cup { Csv(r) : r \in SeqsUpTo(ProbabilityRows, MaxRows) }
GroupSources ==
  FaultSources \cup { Csv(r) : r \in SeqsUpTo(GroupRows, MaxGroupRows) }
    \cup { ScenarioB }

\* Long files of LargeRows lines: every line at 0.5; lines cycling through
\* 0.0, 0.5, 1.0.
LargePatterns == { <<50>>, <<0, 50, 100>> }
LargeSources ==
  { Csv([i \in 1..LargeRows |-> CsvRow(1, 0, pat[((i - 1) % Len(pat)) + 1])]) :
      pat \in LargePatterns }

\* ------------------------------------------------------ pandas operations
\* pd.read_csv: the data lines in file order, labelled 0, 1, 2, ...
read_csv(rows) ==
  [i \in 1..Len(rows) |->
     [index |-> i - 1, CustomerID |-> rows[i].CustomerID,
      is_churned |-> rows[i].is_churned,
      predicted_churn |-> rows[i].predicted_churn,
      churn_probability |-> rows[i].churn_probability,
      Country |-> rows[i].Country]]

\* pd.DataFrame()
EmptyFrame == <<>>

\* load_data with a single except clause: one message for every fault.
load_data_one_message(src) ==
  IF src.kind \in {"missing", "unreadable"}
    THEN [df |-> EmptyFrame, error |-> "error loading"]
  ELSE [df |-> read_csv(src.rows), error |-> "none"]

\* The body of load_data: what it returns and the st.error it shows.
load_data(src) ==
  IF src.kind = "missing"
    THEN [df |-> EmptyFrame, error |-> "not found"]
  ELSE IF src.kind = "unreadable"
    THEN [df |-> EmptyFrame, error |-> "error loading"]
  ELSE [df |-> read_csv(src.rows), error |-> "none"]

\* A guard that never fires.
never_empty(df) == FALSE

\* DataFrame.empty
empty(df) == Len(df) = 0

\* len(col) in place of nunique(): rows, not distinct values.
count_rows(col) == Len(col)

\* Series.nunique()
nunique(col) == Cardinality(Range(col))

\* Series.sum(): the entries lo..hi added up by halves.
RECURSIVE SumRange(_, _, _)
SumRange(col, lo, hi) ==
  IF lo > hi THEN 0
  ELSE IF lo = hi THEN col[lo]
  ELSE LET mid == (lo + hi) \div 2
       IN SumRange(col, lo, mid) + SumRange(col, mid + 1, hi)
sum(col) == SumRange(col, 1, Len(col))

\* Series.mean(), an exact fraction (den = 0 on an empty column: NaN).
mean(col) == [num |-> sum(col), den |-> Len(col)]

\* Order and equality of fractions with positive denominators.
Gt(a, b) == a.num * b.den > b.num * a.den
Eq(a, b) == a.num * b.den = b.num * a.den

Column(df, f) == [i \in 1..Len(df) |-> df[i][f]]

\* The order in which the sort leaves a run of equal keys.  The default
\* kind of sort_values is quicksort, which is not stable: the order of
\* equal keys is fixed by the numpy build, not by the script.  tb names the
\* build's behaviour: the run (given in original order) is rotated by
\* tb.rot and reversed if tb.rev; rot = 0, rev = FALSE is the stable order.
TieOrder(run, tb) ==
  LET n == Len(run)
      r == tb.rot % n
      rotated == [i \in 1..n |-> run[((i - 1 + r) % n) + 1]]
  IN IF tb.rev THEN [i \in 1..n |-> rotated[n + 1 - i]] ELSE rotated

\* sort_values(ascending=False) as an indexer: the positions of keys in
\* non-increasing order of key, equal keys ordered by TieOrder.
RECURSIVE SortDescending(_, _, _)
SortDescending(keys, positions, tb) ==
  IF positions = <<>> THEN <<>>
  ELSE LET present == {keys[i] : i \in Range(positions)}
           top == CHOOSE k \in present : \A w \in present : ~Gt(w, k)
           run == SelectSeq(positions, LAMBDA i : Eq(keys[i], top))
           rest == SelectSeq(positions, LAMBDA i : ~Eq(keys[i], top))
       IN TieOrder(run, tb) \o SortDescending(keys, rest, tb)

argsort(keys, tb) == SortDescending(keys, [i \in 1..Len(keys) |-> i], tb)

\* DataFrame.take(indexer)
take(df, indexer) == [i \in 1..Len(indexer) |-> df[indexer[i]]]

\* DataFrame.head(n)
head(df, n) == SubSeq(df, 1, IF Len(df) < n THEN Len(df) ELSE n)

\* ------------------------------------------------------------ the queries
\* Lines 55-70.
overview_metrics(df) ==
  [total_customers |-> nunique(Column(df, "CustomerID")),
   actual_churn_rate |->
     LET m == mean(Column(df, "is_churned")) IN [num |-> m.num * 100, den |-> m.den],
   predicted_churn_rate |->
     LET m == mean(Column(df, "predicted_churn")) IN [num |-> m.num * 100, den |-> m.den],
   predicted_churners |-> sum(Column(df, "predicted_churn"))]

\* Line 93, df.groupby(country)['is_churned'].mean(): one entry per country
\* value present, in ascending key order.
groupby_mean(df) ==
  LET keys == SelectSeq(Countries, LAMBDA k : \E i \in 1..Len(df) : df[i].Country = k)
  IN [g \in 1..Len(keys) |->
        [Country |-> keys[g],
         is_churned |->
           mean(Column(SelectSeq(df, LAMBDA r : r.Country = keys[g]), "is_churned"))]]

\* Line 93 without the sort_values call.
unsorted_groups(df, tb) == groupby_mean(df)

\* Line 93, .sort_values(ascending=False).reset_index()
sorted_groups(df, tb) ==
  LET g == groupby_mean(df)
  IN take(g, argsort([i \in 1..Len(g) |-> g[i].is_churned], tb))

\* Line 94 written against df_features instead of churn_by_country.
to_percent_of_dataset(env) ==
  [env EXCEPT !.df_features =
     [i \in 1..Len(@) |-> [@[i] EXCEPT !.is_churned = @ * 100]]]

\* Line 94: the statement acts on the script's frames, given here as
\* env = [df_features, churn_by_country]; it rewrites the is_churned
\* column of churn_by_country and leaves df_features alone.
to_percent(env) ==
  [env EXCEPT !.churn_by_country =
     [i \in 1..Len(@) |->
        [@[i] EXCEPT !.is_churned = [num |-> @.num * 100, den |-> @.den]]]]

\* A slider whose max_value is one step too high.
slider_values_wide == min_value..(max_value + 1)

\* Line 112: the values the slider can hand to the script.
slider_values == min_value..max_value

\* The filter with > in place of >=.
filter_above(df, t) == SelectSeq(df, LAMBDA r : r.churn_probability > t)

\* Line 121, df_features[df_features['churn_probability'] >= churn_threshold]
filter_at_risk(df, t) == SelectSeq(df, LAMBDA r : r.churn_probability >= t)

\* Line 121 without the sort_values call.
at_risk_unsorted(df, t, tb) == filter_at_risk(df, t)

\* Line 121, whole.
at_risk_sorted(df, t, tb) ==
  LET f == filter_at_risk(df, t)
  IN take(f, argsort([i \in 1..Len(f) |-> [num |-> f[i].churn_probability, den |-> 1]], tb))

\* The count taken after the cut to DisplayLimit rows.
info_count_shown(frame) == Len(head(frame, DisplayLimit))

\* Line 123: the N of "Showing N customers".
info_count(frame) == Len(frame)

\* Line 131: the table handed to st.dataframe.
display_table(frame) == head(frame, DisplayLimit)

\* ------------------------------------------------------------------ state
VARIABLES
  source,            \* the csv file on disk (never written by the script)
  tieBreak,          \* how this build's quicksort orders equal keys
  cache,             \* st.cache_data's entry for load_data()
  readCount,         \* number of executions of pd.read_csv
  pc,                \* the line the current execution is at
  st_error,          \* the st.error element on the page of this execution
  df_features,       \* line 32
  computed,          \* the aggregates this execution has computed
  metrics,           \* lines 55-70
  churn_by_country,  \* lines 93-94
  churn_threshold,   \* the slider's value, line 112
  at_risk            \* lines 121-131

vars == <<source, tieBreak, cache, readCount, pc, st_error, df_features,
          computed, metrics, churn_by_country, churn_threshold, at_risk>>

\* Every order of a run of up to three equal keys.
TieBreaks == [rev : BOOLEAN, rot : 0..2]

NoEntry == [present |-> FALSE, df |-> EmptyFrame, error |-> "none"]
NoMetrics == [total_customers |-> 0,
              actual_churn_rate |-> [num |-> 0, den |-> 0],
              predicted_churn_rate |-> [num |-> 0, den |-> 0],
              predicted_churners |-> 0]
NoAtRisk == [threshold |-> value, filtered |-> <<>>, count |-> 0, table |-> <<>>]

\* The names of a fresh execution: nothing bound yet.
Unbound ==
  /\ st_error' = "none"
  /\ df_features' = EmptyFrame
  /\ computed' = {}
  /\ metrics' = NoMetrics
  /\ churn_by_country' = <<>>
  /\ at_risk' = NoAtRisk

InitWith(sources) ==
  /\ source \in sources
  /\ tieBreak \in TieBreaks
  /\ cache = NoEntry
  /\ readCount = 0
  /\ pc = "load"
  /\ st_error = "none"
  /\ df_features = EmptyFrame
  /\ computed = {}
  /\ metrics = NoMetrics
  /\ churn_by_country = <<>>
  /\ churn_threshold = value
  /\ at_risk = NoAtRisk

Init == InitWith(ProbabilitySources)

\* load_data without @st.cache_data: every call runs the body.
cache_miss(entry) == FALSE

\* @st.cache_data, line 16: a call is answered from the entry if there is one.
cache_hit(entry) == entry.present

\* Line 32, df_features = load_data().  On a hit the body does not run and
\* the entry's value and its st.error element are replayed.
LoadData ==
  /\ pc = "load"
  /\ IF cache_hit(cache)
       THEN /\ df_features' = cache.df
            /\ st_error' = cache.error
            /\ UNCHANGED <<cache, readCount>>
       ELSE LET r == load_data(source)
            IN /\ readCount' = readCount + 1
               /\ cache' = [present |-> TRUE, df |-> r.df, error |-> r.error]
               /\ df_features' = r.df
               /\ st_error' = r.error
  /\ pc' = "guard"
  /\ UNCHANGED <<source, tieBreak, computed, metrics, churn_by_country,
                 churn_threshold, at_risk>>

\* Lines 35-36, if df_features.empty: st.stop()
EmptyGuard ==
  /\ pc = "guard"
  /\ pc' = IF empty(df_features) THEN "stopped" ELSE "overview"
  /\ UNCHANGED <<source, tieBreak, cache, readCount, st_error, df_features,
                 computed, metrics, churn_by_country, churn_threshold, at_risk>>

\* Lines 55-70.
OverviewMetrics ==
  /\ pc = "overview"
  /\ metrics' = overview_metrics(df_features)
  /\ computed' = computed \cup {"overview"}
  /\ pc' = "country"
  /\ UNCHANGED <<source, tieBreak, cache, readCount, st_error, df_features,
                 churn_by_country, churn_threshold, at_risk>>

\* Lines 93-94.
ChurnByCountry ==
  /\ pc = "country"
  /\ LET env == to_percent([df_features |-> df_features,
                            churn_by_country |-> sorted_groups(df_features, tieBreak)])
     IN /\ df_features' = env.df_features
        /\ churn_by_country' = env.churn_by_country
  /\ computed' = computed \cup {"country"}
  /\ pc' = "at_risk"
  /\ UNCHANGED <<source, tieBreak, cache, readCount, st_error, metrics,
                 churn_threshold, at_risk>>

\* Lines 112-131: the slider hands over its value, the rows are filtered
\* and sorted, the count is shown and a non-empty result is tabulated.
AtRiskCustomers ==
  /\ pc = "at_risk"
  /\ LET at_risk_customers_filtered ==
           at_risk_sorted(df_features, churn_threshold, tieBreak)
     IN at_risk' = [threshold |-> churn_threshold,
                    filtered |-> at_risk_customers_filtered,
                    count |-> info_count(at_risk_customers_filtered),
                    table |-> IF ~empty(at_risk_customers_filtered)
                                THEN display_table(at_risk_customers_filtered)
                                ELSE <<>>]
  /\ computed' = computed \cup {"at_risk"}
  /\ pc' = "done"
  /\ UNCHANGED <<source, tieBreak, cache, readCount, st_error, df_features,
                 metrics, churn_by_country, churn_threshold>>

\* The user moves the slider: the script is executed again from line 1.
SliderChange ==
  /\ pc = "done"
  /\ \E v \in slider_values \ {churn_threshold} : churn_threshold' = v
  /\ pc' = "load"
  /\ Unbound
  /\ UNCHANGED <<source, tieBreak, cache, readCount>>

\* The user reruns the page without changing a widget (also possible after
\* st.stop()).
Rerun ==
  /\ pc \in {"done", "stopped"}
  /\ pc' = "load"
  /\ Unbound
  /\ UNCHANGED <<source, tieBreak, cache, readCount, churn_threshold>>

Next ==
  \/ LoadData
  \/ EmptyGuard
  \/ OverviewMetrics
  \/ ChurnByCountry
  \/ AtRiskCustomers
  \/ SliderChange
  \/ Rerun

Spec == Init /\ [][Next]_vars

\* The same script on the files that differ in customer, outcome and country.
InitGroups == InitWith(GroupSources)
SpecGroups == InitGroups /\ [][Next]_vars

\* The same script on the long files.
InitLarge == InitWith(LargeSources)
SpecLarge == InitLarge /\ [][Next]_vars

\* ----------------------------------------------------------------- claims
NoRows(src) == src.kind # "csv" \/ Len(src.rows) = 0
Computed(q) == q \in computed
Indexes(frame) == {frame[i].index : i \in DOMAIN frame}

\* C1: when the source is missing, unreadable or has no data line, the
\* execution halts at the empty-dataset guard and no overview metric,
\* country table or at-risk list is ever computed; whenever an aggregate
\* has been computed the loaded dataset has at least one row.
C1_EmptyDatasetHaltsBeforeAggregates ==
  /\ NoRows(source) =>
       /\ pc \in {"load", "guard", "stopped"}
       /\ computed = {}
       /\ metrics = NoMetrics /\ churn_by_country = <<>> /\ at_risk = NoAtRisk
  /\ (computed # {} \/ pc \in {"overview", "country", "at_risk", "done"}) =>
       Len(df_features) >= 1

C1_Witness ==
  /\ pc = "stopped" /\ source.kind = "missing"
  /\ empty(df_features) /\ computed = {}

C3_CountBeforeCutTableAfter ==
  Computed("at_risk") =>
    LET n == Cardinality({r \in Range(df_features) :
                            r.churn_probability >= at_risk.threshold})
        shown == IF n < 500 THEN n ELSE 500
    IN /\ at_risk.count = n
       /\ Len(at_risk.filtered) = n
       /\ Len(at_risk.table) = shown
       /\ at_risk.table = SubSeq(at_risk.filtered, 1, shown)

\* Scenario C: more than 500 rows qualify, 500 are shown.
C3_Witness ==
  /\ Computed("at_risk")
  /\ at_risk.count = LargeRows /\ at_risk.count > 500
  /\ Len(at_risk.table) = 500

NonIncreasing(f) ==
  \A i, j \in DOMAIN f : i < j => f[i].churn_probability >= f[j].churn_probability

\* C4 as stated: the at-risk result is non-increasing in churn_probability
\* and rows of equal probability keep their order in the dataset.
C4_SortedAndStable ==
  Computed("at_risk") =>
    LET f == at_risk.filtered
    IN /\ NonIncreasing(f)
       /\ \A i, j \in DOMAIN f :
            (i < j /\ f[i].churn_probability = f[j].churn_probability)
              => f[i].index < f[j].index

\* C4 as amended: the at-risk result is non-increasing in
\* churn_probability and is a rearrangement of the filtered rows; the
\* order among rows of equal probability is not fixed by the script.
C4_SortedRearrangement ==
  Computed("at_risk") =>
    LET f == at_risk.filtered
        kept == filter_at_risk(df_features, at_risk.threshold)
    IN /\ NonIncreasing(f)
       /\ Len(f) = Len(kept)
       /\ Indexes(f) = Indexes(kept)

\* The sort moved a later, more probable row ahead of an earlier one.
C4_Witness ==
  /\ Computed("at_risk") /\ Len(at_risk.filtered) >= 2
  /\ at_risk.filtered[1].index > at_risk.filtered[2].index
  /\ at_risk.filtered[1].churn_probability > at_risk.filtered[2].churn_probability

\* C5: the country table has exactly one entry per country present in the
\* dataset, each rate is 100 * churned rows / rows of that country and lies
\* in [0, 100], and the entries are in non-increasing order of rate.
C5_ChurnByCountry ==
  Computed("country") =>
    LET c == churn_by_country
        present == {df_features[i].Country : i \in DOMAIN df_features}
    IN /\ {c[i].Country : i \in DOMAIN c} = present
       /\ Len(c) = Cardinality(present)
       /\ \A i \in DOMAIN c :
            LET rows == {r \in Range(df_features) : r.Country = c[i].Country}
                churned == {r \in rows : r.is_churned = 1}
                rate == c[i].is_churned
            IN /\ rate.den > 0
               /\ rate.num * Cardinality(rows) = 100 * Cardinality(churned) * rate.den
               /\ 0 <= rate.num /\ rate.num <= 100 * rate.den
       /\ \A i, j \in DOMAIN c : i < j => ~Gt(c[j].is_churned, c[i].is_churned)

\* Scenario B: [(France, 100.0), (UK, 40.0)].
C5_Witness ==
  /\ Computed("country") /\ Len(df_features) = 8 /\ Len(churn_by_country) = 2
  /\ churn_by_country[1].Country = "France"
  /\ Eq(churn_by_country[1].is_churned, [num |-> 100, den |-> 1])
  /\ churn_by_country[2].Country = "UK"
  /\ Eq(churn_by_country[2].is_churned, [num |-> 40, den |-> 1])

Faults == {"missing", "unreadable"}
OtherFault(k) == IF k = "missing" THEN "unreadable" ELSE "missing"

\* C6 as stated: after a failed load the outcome handed to the caller
\* differs between a source not found and a source unreadable.
C6_CallerCanTellFaultsApart ==
  (pc # "load" /\ source.kind \in Faults) =>
    df_features # load_data([kind |-> OtherFault(source.kind), rows |-> <<>>]).df

\* C6 as amended: load_data itself reports the two faults with different
\* messages, and hands the caller the same empty DataFrame for both.
C6_FaultsReportedByLoadData ==
  pc # "load" =>
    /\ source.kind = "missing" => (st_error = "not found" /\ df_features = EmptyFrame)
    /\ source.kind = "unreadable" => (st_error = "error loading" /\ df_features = EmptyFrame)
    /\ source.kind = "csv" => st_error = "none"

C6_Witness ==
  pc = "stopped" /\ source.kind = "unreadable" /\ st_error = "error loading"

\* C7: over all executions of a session the source is read exactly once:
\* never before the first call of load_data has run, once from then on,
\* whether that read succeeded or failed.
C7_SourceReadOnce ==
  /\ readCount <= 1
  /\ cache.present <=> readCount = 1
  /\ pc # "load" => readCount = 1

\* A re-execution (the slider has left its default) is past line 32.
C7_Witness ==
  pc = "guard" /\ churn_threshold # value /\ readCount = 1

\* C8: from line 32 on, and in every later execution, df_features holds
\* the rows read from the source, in their order and with their values,
\* whatever queries have run.
C8_DatasetUnchangedByQueries ==
  pc # "load" =>
    /\ df_features = load_data(source).df
    /\ cache.df = df_features

\* All three queries have run again after a slider change, on a dataset
\* with a churned customer.
C8_Witness ==
  /\ pc = "done" /\ churn_threshold # value
  /\ computed = {"overview", "country", "at_risk"}
  /\ \E r \in Range(df_features) : r.is_churned = 1

\* C9: total_customers is the number of distinct Customer ID values.
C9_TotalCustomersCountsDistinctIds ==
  Computed("overview") =>
    metrics.total_customers =
      Cardinality({df_features[i].CustomerID : i \in DOMAIN df_features})

\* Two rows of one customer count once.
C9_Witness ==
  /\ Computed("overview") /\ Len(df_features) = 2
  /\ df_features[1].CustomerID = df_features[2].CustomerID
  /\ metrics.total_customers = 1

\* C10: the slider's value, and the threshold every at-risk filter was
\* applied with, lie in [0.0, 1.0].
C10_ThresholdInUnitRange ==
  /\ 0 <= churn_threshold /\ churn_threshold <= 100
  /\ 0 <= at_risk.threshold /\ at_risk.threshold <= 100

C10_Witness ==
  Computed("at_risk") /\ at_risk.threshold = 100 /\ at_risk.count >= 1

====
